---- MODULE Spec2Model ----
(***************************************************************************)
(* Quantile-based bucket sort (src/main.py, bucket_sort_quantile_based).   *)
(* The sort draws a sample with the process-wide random source, sorts it,  *)
(* reads num_buckets - 1 boundaries from it, assigns every element to a    *)
(* bucket by bisect_left and concatenates the sorted buckets.              *)
(***************************************************************************)
EXTENDS Integers, Sequences, FiniteSets, TLC

VARIABLES
    data,               \* the caller's list
    seed,               \* the seed the harness gives random.seed
    rng,                \* the state of the process-wide generator
    rng0,               \* rng when the sort was called
    pc,                 \* where the program is
    n,                  \* len(data)
    num_buckets,
    sample_size,
    sample,             \* the sample, sorted
    qidx,               \* the quantile indices computed, in order
    bucket_boundaries,
    bidx,               \* the bucket index computed for each element of data
    buckets,            \* buckets[b + 1] is bucket b
    result,             \* the list the sort returned
    run,                \* 1 for the first sort of the harness, 2 for the second
    reseeded,           \* the second sort was started from random.seed(seed)
    first               \* what the first sort returned, and its boundaries

vars == <<data, seed, rng, rng0, pc, n, num_buckets, sample_size, sample,
          qidx, bucket_boundaries, bidx, buckets, result, run, reseeded, first>>

locals == <<n, num_buckets, sample_size, sample, qidx, bucket_boundaries, bidx,
            buckets, result>>

(***************************************************************************)
(* Binary64 arithmetic, as far as the sort uses it: a quotient a / b of    *)
(* two ints with 0 < a < b, and int(q * c) for such a quotient q and an    *)
(* int c.  A double q below 1 is kept as [z, hi, lo]: its 53-bit           *)
(* significand is 2^52 + hi * 2^26 + lo, and its value is the significand  *)
(* times 2^-(z + 53), so z counts the zero bits after the binary point.    *)
(* Both operations round to nearest, ties to even.  The ints stay below    *)
(* 2^31, so b and c must stay below 2^17.                                  *)
(***************************************************************************)
Limb == 2^13
Half == 2^26

\* a / b in binary64 (true division of two ints, 0 < a < b): long division,
\* 13 bits at a time after the leading 1 bit, then the rounding
FloatDiv(a, b) ==
    LET z   == CHOOSE k \in 0..30 : a * 2^k < b /\ b <= a * 2^(k + 1)
        r0  == a * 2^(z + 1) - b
        d1  == (r0 * Limb) \div b
        r1  == (r0 * Limb) % b
        d2  == (r1 * Limb) \div b
        r2  == (r1 * Limb) % b
        d3  == (r2 * Limb) \div b
        r3  == (r2 * Limb) % b
        d4  == (r3 * Limb) \div b
        r4  == (r3 * Limb) % b
        hi  == d1 * Limb + d2
        lo  == d3 * Limb + d4
        up  == 2 * r4 > b \/ (2 * r4 = b /\ lo % 2 = 1)
        lo2 == IF up THEN (lo + 1) % Half ELSE lo
        hi2 == IF up /\ lo + 1 = Half THEN hi + 1 ELSE hi
    IN IF hi2 = Half THEN [z |-> z - 1, hi |-> 0, lo |-> 0]
       ELSE [z |-> z, hi |-> hi2, lo |-> lo2]

\* int(q * c) for a double q = [z, hi, lo] below 1 and an int c >= 0: the
\* exact product of the significand and c is top * 2^52 + phi * 2^26 + plo;
\* it is rounded to 53 bits, which drops the low e bits, and the integer part
\* of the rounded product is kept
FloatMulTrunc(q, c) ==
    IF c = 0 THEN 0
    ELSE LET p4  == (q.lo % Limb) * c
             p3  == (q.lo \div Limb) * c + (p4 \div Limb)
             p2  == (q.hi % Limb) * c + (p3 \div Limb)
             p1  == (q.hi \div Limb) * c + (p2 \div Limb)
             top == c + (p1 \div Limb)
             plo == (p3 % Limb) * Limb + (p4 % Limb)
             phi == (p1 % Limb) * Limb + (p2 % Limb)
             e   == CHOOSE k \in 0..30 : 2^k <= top /\ top < 2^(k + 1)
             guard  == (plo \div 2^(e - 1)) % 2 = 1
             sticky == plo % 2^(e - 1) # 0
             odd    == (plo \div 2^e) % 2 = 1
             up     == e > 0 /\ guard /\ (sticky \/ odd)
             carry  == up /\ phi = Half - 1 /\ plo \div 2^e = 2^(26 - e) - 1
             top2   == IF carry THEN top + 1 ELSE top
         IN top2 \div 2^(q.z + 1)

(***************************************************************************)
(* Library operations the sort calls.                                      *)
(***************************************************************************)
Min(a, b) == IF a <= b THEN a ELSE b
Max(a, b) == IF a >= b THEN a ELSE b

\* int(math.sqrt(m)): the largest k with k * k <= m, by bisection
RECURSIVE IsqrtIn(_, _, _)
IsqrtIn(m, lo, hi) ==
    IF lo >= hi THEN lo
    ELSE LET mid == (lo + hi + 1) \div 2
         IN IF mid <= m \div mid THEN IsqrtIn(m, mid, hi) ELSE IsqrtIn(m, lo, mid - 1)

Isqrt(m) == IsqrtIn(m, 0, m)

\* list.sort() / sorted(): the stable ascending arrangement of s.  Each
\* element goes to the position given by its rank.
Sorted(s0) ==
    LET len  == Len(s0)
        s    == SubSeq(s0, 1, len)
        rank == SubSeq([i \in 1..len |->
                    Cardinality({j \in 1..len :
                        s[j] < s[i] \/ (s[j] = s[i] /\ j < i)}) + 1], 1, len)
        inv  == SubSeq([k \in 1..len |-> CHOOSE i \in 1..len : rank[i] = k], 1, len)
    IN SubSeq([k \in 1..len |-> s[inv[k]]], 1, len)

\* bisect_left(a, x) on positions lo..hi (0-based, hi exclusive)
RECURSIVE BisectFrom(_, _, _, _)
BisectFrom(a, x, lo, hi) ==
    IF lo < hi
    THEN LET mid == (lo + hi) \div 2
         IN IF a[mid + 1] < x THEN BisectFrom(a, x, mid + 1, hi)
            ELSE BisectFrom(a, x, lo, mid)
    ELSE lo

\* bisect_right(a, x): the insertion point after the entries equal to x
RECURSIVE BisectRightFrom(_, _, _, _)
BisectRightFrom(a, x, lo, hi) ==
    IF lo < hi
    THEN LET mid == (lo + hi) \div 2
         IN IF x < a[mid + 1] THEN BisectRightFrom(a, x, lo, mid)
            ELSE BisectRightFrom(a, x, mid + 1, hi)
    ELSE lo

BisectRight(a, x) == BisectRightFrom(a, x, 0, Len(a))

BisectLeft(a, x) == BisectFrom(a, x, 0, Len(a))

\* The process-wide generator of the random module: a state, a step and the
\* number below m drawn from a state.
RngNext(r) == (75 * r + 74) % 65537

RandBelow(r, m) == r % m

\* random.seed(s)
SeedState(s) == s % 65537

\* one iteration of random.sample's selection loop: draw j below len - i,
\* take pool[j], move the last live element into its place
DrawStep(st, i, len) ==
    LET r2 == RngNext(st.rng)
        j  == RandBelow(r2, len - i)
    IN [pool   |-> [st.pool EXCEPT ![j + 1] = st.pool[len - i]],
        result |-> Append(st.result, st.pool[j + 1]),
        rng    |-> r2]

\* iterations lo..hi of the selection loop, in order
RECURSIVE Draws(_, _, _, _)
Draws(st, lo, hi, len) ==
    IF lo > hi THEN st
    ELSE IF lo = hi THEN DrawStep(st, lo, len)
    ELSE LET mid  == (lo + hi) \div 2
             left == Draws(st, lo, mid, len)
         IN IF left.rng >= 0 THEN Draws(left, mid + 1, hi, len) ELSE left

\* the selection of k elements without replacement; ValueError (ok = FALSE)
\* when k is negative or larger than the population
PoolSample(population, k, r) ==
    IF k < 0 \/ k > Len(population)
    THEN [ok |-> FALSE, result |-> <<>>, rng |-> r]
    ELSE LET st == Draws([pool |-> population, result |-> <<>>, rng |-> r],
                         0, k - 1, Len(population))
         IN [ok |-> TRUE, result |-> st.result, rng |-> st.rng]

\* a sampler that returns the population list itself when all of it is asked
\* for, instead of a new list
RandomSampleInPlace(population, k, r) ==
    [fresh |-> k # Len(population)] @@ PoolSample(population, k, r)

\* a sampler that draws from a generator random.seed does not reach
RandomSampleUnseeded(population, k, r) ==
    [fresh |-> TRUE] @@ PoolSample(population, k, run)

\* random.sample(population, k): a new list (fresh) of k elements
RandomSample(population, k, r) ==
    [fresh |-> TRUE] @@ PoolSample(population, k, r)


(***************************************************************************)
(* bucket_sort_quantile_based, stage by stage.                             *)
(***************************************************************************)
MinSample == 1000

\* the double 0.01
OnePercent == FloatDiv(1, 100)

\* a sort without the base case
IsEmptyInputNever(len) == len < 0

\* line 14: the empty input returns at once
IsEmptyInput(len) == len = 0

\* line 18
NumBuckets(len) == Max(1, Isqrt(len))

\* a sample size without the cap at len
SampleSizeNoCap(len) == Max(MinSample, FloatMulTrunc(OnePercent, len))

\* line 21
SampleSize(len) == Min(len, Max(MinSample, FloatMulTrunc(OnePercent, len)))

\* line 27: range(1, num_buckets)
BoundaryRange(nb) == 1..(nb - 1)

\* lines 29-30: quantile = i / num_buckets; index = int(quantile * (s - 1))
QuantileIndex(i, nb, s) == FloatMulTrunc(FloatDiv(i, nb), s - 1)

\* the insertion point to the right of equal boundaries
BucketIndexRight(bounds, x) == BisectRight(bounds, x)

\* a bucket index counted from 1
BucketIndexOneBased(bounds, x) == BisectLeft(bounds, x) + 1

\* line 38
BucketIndex(bounds, x) == BisectLeft(bounds, x)

\* line 39 for element i of d
AppendStep(bk, d, idx, i) == [bk EXCEPT ![idx[i] + 1] = Append(@, d[i])]

\* lines 37-39 for elements lo..hi of d, in order
RECURSIVE AssignFrom(_, _, _, _, _)
AssignFrom(bk, d, idx, lo, hi) ==
    IF lo > hi THEN bk
    ELSE IF lo = hi THEN AppendStep(bk, d, idx, lo)
    ELSE LET mid  == (lo + hi) \div 2
             left == AssignFrom(bk, d, idx, lo, mid)
         IN IF Len(left) >= 0 THEN AssignFrom(left, d, idx, mid + 1, hi) ELSE left

\* a bucket appended as it is
SortBucketSkipped(bucket) == bucket

\* line 44: sorted(bucket)
SortBucket(bucket) == Sorted(bucket)

\* an assignment where the code extends
ExtendReplaced(acc, bucket) == SortBucket(bucket)

\* line 44: sorted_data.extend(sorted(bucket))
Extend(acc, bucket) == acc \o SortBucket(bucket)

\* lines 43-44 for buckets lo..hi, in order
RECURSIVE ExtendFrom(_, _, _, _)
ExtendFrom(acc, bk, lo, hi) ==
    IF lo > hi THEN acc
    ELSE IF lo = hi THEN Extend(acc, bk[lo])
    ELSE LET mid  == (lo + hi) \div 2
             left == ExtendFrom(acc, bk, lo, mid)
         IN IF Len(left) >= 0 THEN ExtendFrom(left, bk, mid + 1, hi) ELSE left

\* lines 13-21: the base case, or the bucket count and the sample size
Call ==
    /\ pc = "idle"
    /\ rng0' = rng
    /\ n' = Len(data)
    /\ IF IsEmptyInput(Len(data))
       THEN /\ result' = data
            /\ pc' = "done"
            /\ UNCHANGED <<num_buckets, sample_size>>
       ELSE /\ num_buckets' = NumBuckets(Len(data))
            /\ sample_size' = SampleSize(Len(data))
            /\ pc' = "sample"
            /\ UNCHANGED result
    /\ UNCHANGED <<data, seed, rng, sample, qidx, bucket_boundaries, bidx, buckets,
                   run, reseeded, first>>

\* lines 22-23: sample = random.sample(data, sample_size); sample.sort().
\* A sampler that returned the caller's list would have it sorted in place.
Sample ==
    /\ pc = "sample"
    /\ \E smp \in {RandomSample(data, sample_size, rng)} :
          IF smp.ok
          THEN /\ sample' = Sorted(smp.result)
               /\ rng' = smp.rng
               /\ data' = IF smp.fresh THEN data ELSE Sorted(smp.result)
               /\ pc' = "bounds"
          ELSE /\ pc' = "failed"
               /\ UNCHANGED <<sample, rng, data>>
    /\ UNCHANGED <<seed, rng0, n, num_buckets, sample_size, qidx,
                   bucket_boundaries, bidx, buckets, result, run, reseeded, first>>

\* line 30 for every i of the loop, in order
QuantileIndices(nb, s) ==
    LET is == BoundaryRange(nb)
    IN SubSeq([i \in is |-> QuantileIndex(i, nb, s)], 1, Cardinality(is))

\* line 31 for every index computed
BoundariesAt(smp, ix) == SubSeq([i \in DOMAIN ix |-> smp[ix[i] + 1]], 1, Len(ix))

\* lines 26-31: the boundaries; IndexError when an index is outside the sample
Boundaries ==
    /\ pc = "bounds"
    /\ qidx' = QuantileIndices(num_buckets, sample_size)
    /\ IF \A i \in DOMAIN qidx' : qidx'[i] < Len(sample)
       THEN /\ bucket_boundaries' = BoundariesAt(sample, qidx')
            /\ pc' = "assign"
       ELSE /\ pc' = "failed"
            /\ UNCHANGED bucket_boundaries
    /\ UNCHANGED <<data, seed, rng, rng0, n, num_buckets, sample_size, sample,
                   bidx, buckets, result, run, reseeded, first>>

\* line 38 for every element of d, in order
BucketIndices(bounds, d) ==
    SubSeq([i \in DOMAIN d |-> BucketIndex(bounds, d[i])], 1, Len(d))

\* lines 34-39: the buckets; IndexError when an index is outside the buckets
Assign ==
    /\ pc = "assign"
    /\ bidx' = BucketIndices(bucket_boundaries, data)
    /\ IF \A i \in DOMAIN bidx' : bidx'[i] < num_buckets
       THEN /\ buckets' = AssignFrom([b \in 1..num_buckets |-> <<>>], data, bidx', 1, n)
            /\ pc' = "sortcat"
       ELSE /\ pc' = "failed"
            /\ UNCHANGED buckets
    /\ UNCHANGED <<data, seed, rng, rng0, n, num_buckets, sample_size, sample,
                   qidx, bucket_boundaries, result, run, reseeded, first>>

\* lines 42-46: the sorted buckets, concatenated
SortConcat ==
    /\ pc = "sortcat"
    /\ result' = ExtendFrom(<<>>, buckets, 1, num_buckets)
    /\ pc' = "done"
    /\ UNCHANGED <<data, seed, rng, rng0, n, num_buckets, sample_size, sample,
                   qidx, bucket_boundaries, bidx, buckets, run, reseeded, first>>

(***************************************************************************)
(* The harness (lines 70-71, 99): the generator is seeded with              *)
(* random.seed(seed) before the first sort; the same list is then sorted a *)
(* second time, from the same seed or from where the generator stands.     *)
(***************************************************************************)
NoRun == [out |-> <<>>, bounds |-> <<>>]

Cleared ==
    /\ n' = 0
    /\ num_buckets' = 0
    /\ sample_size' = 0
    /\ sample' = <<>>
    /\ qidx' = <<>>
    /\ bucket_boundaries' = <<>>
    /\ bidx' = <<>>
    /\ buckets' = <<>>
    /\ result' = <<>>

\* the second run, from the same seed
Reseed ==
    /\ pc = "done"
    /\ run = 1
    /\ first' = [out |-> result, bounds |-> bucket_boundaries]
    /\ rng' = SeedState(seed)
    /\ reseeded' = TRUE
    /\ run' = 2
    /\ pc' = "idle"
    /\ Cleared
    /\ UNCHANGED <<data, seed, rng0>>

\* the second run, from the generator as the first run left it
CallAgain ==
    /\ pc = "done"
    /\ run = 1
    /\ first' = [out |-> result, bounds |-> bucket_boundaries]
    /\ reseeded' = FALSE
    /\ run' = 2
    /\ pc' = "idle"
    /\ Cleared
    /\ UNCHANGED <<data, seed, rng, rng0>>

Next ==
    \/ Call
    \/ Sample
    \/ Boundaries
    \/ Assign
    \/ SortConcat
    \/ Reseed
    \/ CallAgain

(***************************************************************************)
(* Inputs.                                                                 *)
(***************************************************************************)
MaxLen == 9
MaxVal == 1
MaxSeed == 1

SmallInputs == UNION {[1..len -> 0..MaxVal] : len \in 0..MaxLen}

InitWith(inputs) ==
    /\ data \in inputs
    /\ seed \in 0..MaxSeed
    /\ rng = SeedState(seed)
    /\ rng0 = 0
    /\ pc = "idle"
    /\ n = 0
    /\ num_buckets = 0
    /\ sample_size = 0
    /\ sample = <<>>
    /\ qidx = <<>>
    /\ bucket_boundaries = <<>>
    /\ bidx = <<>>
    /\ buckets = <<>>
    /\ result = <<>>
    /\ run = 1
    /\ reseeded = FALSE
    /\ first = NoRun

\* the smallest length whose quantile index the double arithmetic rounds down
FloatCaseLen == 290
\* the smallest length at which 1% of it rounds up where int() truncates
RoundCaseLen == 100051
\* the values of a patterned list are taken modulo one of these: modulo
\* DenseMod every value repeats, modulo SparseMod the values of a list
\* shorter than it are distinct
DenseMod == 97
SparseMod == 1009
MaxMult == 2

\* a list of len numbers below md: ascending runs for mult = 1, scattered
\* otherwise
Pattern(len, mult, md) ==
    SubSeq([i \in 1..len |-> ((6 * mult - 5) * i) % md], 1, len)

\* lists around the length at which the sample stops being the whole input
MediumInputs == {Pattern(len, mult, md) : len \in {FloatCaseLen, MinSample + 1},
                                          mult \in 1..MaxMult,
                                          md \in {DenseMod, SparseMod}}

\* a list long enough for 1% of it to pass the minimum sample size
HugeInputs == {Pattern(RoundCaseLen, MaxMult, SparseMod)}

Init == InitWith(SmallInputs \cup MediumInputs)

Spec == Init /\ [][Next]_vars

HugeInit == InitWith(MediumInputs \cup HugeInputs)

HugeSpec == HugeInit /\ [][Next]_vars

(***************************************************************************)
(* The claims.                                                             *)
(***************************************************************************)
Range(s) == {s[i] : i \in DOMAIN s}

Count(s, v) == Cardinality({i \in DOMAIN s : s[i] = v})

SameMultiset(s, t) ==
    /\ Len(s) = Len(t)
    /\ \A v \in Range(s) \cup Range(t) : Count(s, v) = Count(t, v)

NonDecreasing(s) == \A i \in 1..(Len(s) - 1) : s[i] <= s[i + 1]

\* the number of boundary values strictly less than x
CountLess(bounds, x) == Cardinality({k \in DOMAIN bounds : bounds[k] < x})

\* how often each value occurs in s, counted in one pass
ValueSpace == 0..(SparseMod - 1)

RECURSIVE TallyFrom(_, _, _, _)
TallyFrom(acc, s, lo, hi) ==
    IF lo > hi THEN acc
    ELSE IF lo = hi THEN [acc EXCEPT ![s[lo]] = @ + 1]
    ELSE LET mid  == (lo + hi) \div 2
             left == TallyFrom(acc, s, lo, mid)
         IN IF left[0] >= 0 THEN TallyFrom(left, s, mid + 1, hi) ELSE left

Tally(s) == TallyFrom([v \in ValueSpace |-> 0], s, 1, Len(s))

SubMultiset(s, t) ==
    \E ts \in {Tally(s)} : \E tt \in {Tally(t)} : \A v \in ValueSpace : ts[v] <= tt[v]

Sampled == pc \in {"bounds", "assign", "sortcat"} \/ (pc = "done" /\ n >= 1)

Assigned == pc = "sortcat" \/ (pc = "done" /\ n >= 1)

\* C1: the list returned has exactly the elements of the input, each as often
\* as the input has it; on the way every element is in exactly one bucket.
C1_Permutation ==
    /\ pc = "done" => SameMultiset(result, data)
    /\ Assigned =>
          \A v \in Range(data) :
              Cardinality({p \in UNION {{<<b, i>> : i \in DOMAIN buckets[b]} :
                                          b \in DOMAIN buckets} :
                              buckets[p[1]][p[2]] = v}) = Count(data, v)

\* C1 witness: a sort with a proper sample and several non-empty buckets has
\* returned an input with repeated elements, rearranged.
C1_Witness ==
    /\ pc = "done"
    /\ sample_size < n
    /\ result # data
    /\ Count(data, data[1]) >= 2
    /\ \E b1, b2 \in DOMAIN buckets : b1 # b2 /\ buckets[b1] # <<>> /\ buckets[b2] # <<>>

\* C2: the list returned is non-decreasing.
C2_Sorted == pc = "done" => NonDecreasing(result)

\* C2 witness: a sort of an unsorted input whose boundaries repeat a value
\* and leave a bucket empty has returned.
C2_Witness ==
    /\ pc = "done"
    /\ ~NonDecreasing(data)
    /\ \E i \in 1..(Len(bucket_boundaries) - 1) :
          bucket_boundaries[i] = bucket_boundaries[i + 1]
    /\ \E b \in DOMAIN buckets : buckets[b] = <<>>

C4_NoGlobalRandomState == (Sampled \/ pc = "done") => rng = rng0

\* C5: the empty input is returned at once, the sample and the boundaries
\* never computed and the generator untouched; a one-element input comes
\* back as a list of that element.
C5_BaseCases ==
    /\ pc \in {"sample", "bounds", "assign", "sortcat", "failed"} => n >= 1
    /\ (pc = "done" /\ Len(data) = 0) =>
          (result = <<>> /\ rng = rng0 /\ sample = <<>> /\ bucket_boundaries = <<>>)
    /\ (pc = "done" /\ Len(data) = 1) => result = data

\* C5 witness: the sort of an empty input has returned.
C5_Witness == pc = "done" /\ data = <<>> /\ result = <<>> /\ rng = rng0

\* C6: no step of the sort changes the caller's list: it keeps its elements,
\* in their order.
C6_NoMutation == [][data' = data]_vars

\* C6 witness: a sort that sampled the whole of an unsorted input has
\* returned it sorted.
C6_Witness ==
    /\ pc = "done"
    /\ n >= 2
    /\ sample_size = n
    /\ Len(sample) = n
    /\ result # data

\* 1% of len, rounded to the nearest integer (ties to even)
RoundPercent(len) ==
    LET q == len \div 100
        r == len % 100
    IN IF r > 50 \/ (r = 50 /\ q % 2 = 1) THEN q + 1 ELSE q

\* the sample size is `size`, and the sample drawn is a sub-multiset of the
\* input with that many elements
SampleIs(size) ==
    /\ (pc \in {"sample", "failed"} \/ Sampled) => sample_size = size
    /\ Sampled => Len(sample) = size
    /\ pc = "bounds" => SubMultiset(sample, data)

\* C7 as stated: for n >= 1 the sample size is
\* min(n, max(1000, round(0.01 n))), and the sample is a sub-multiset of the
\* input of that size.
C7_RoundedSampleSize == SampleIs(Min(n, Max(MinSample, RoundPercent(n))))

\* C7 amended: for n >= 1 the sample size is
\* min(n, max(1000, floor(0.01 n))), and the sample is a sub-multiset of the
\* input of that size.
C7_TruncatedSampleSize == SampleIs(Min(n, Max(MinSample, n \div 100)))

\* C7 witness: a sample smaller than the input has been drawn from an input
\* whose 1% reaches the minimum sample size.
C7_Witness ==
    /\ pc = "assign"
    /\ n \div 100 >= MinSample
    /\ Len(sample) = sample_size
    /\ sample_size < n

\* C8: every element is in the bucket whose index is the number of
\* boundaries strictly below it, in the order of the input.
C8_BucketRule ==
    Assigned =>
        /\ \A i \in 1..n : bidx[i] = CountLess(bucket_boundaries, data[i])
        /\ \A b \in 1..num_buckets :
              buckets[b] = SelectSeq(data,
                               LAMBDA x : CountLess(bucket_boundaries, x) = b - 1)

\* C8 witness: a boundary value occurs twice among the boundaries and more
\* than once in the input, and the buckets are filled.
C8_Witness ==
    /\ pc = "sortcat"
    /\ \E i \in 1..(Len(bucket_boundaries) - 1) :
          /\ bucket_boundaries[i] = bucket_boundaries[i + 1]
          /\ Count(data, bucket_boundaries[i]) >= 2

BoundariesSet == pc = "assign" \/ Assigned

\* C9: there are num_buckets - 1 boundaries, with num_buckets =
\* max(1, floor(sqrt(n))); they are non-decreasing, and boundary i is the
\* element of the sorted sample at index floor((i / num_buckets) * (s - 1)).
C9_Boundaries ==
    BoundariesSet =>
        /\ \E k \in 0..n : k * k <= n /\ n < (k + 1) * (k + 1)
                             /\ num_buckets = Max(1, k)
        /\ Len(bucket_boundaries) = num_buckets - 1
        /\ NonDecreasing(bucket_boundaries)
        /\ \A i \in 1..(num_buckets - 1) :
              bucket_boundaries[i] =
                  sample[(i * (sample_size - 1)) \div num_buckets + 1]

\* C10: the sort does not fail; every quantile index is a position of the
\* sample and every bucket index a position of the buckets.
C10_InBounds ==
    /\ pc # "failed"
    /\ \A i \in DOMAIN qidx : 0 <= qidx[i] /\ qidx[i] <= sample_size - 1
    /\ \A i \in DOMAIN bidx : 0 <= bidx[i] /\ bidx[i] <= num_buckets - 1
    /\ pc = "done" => Len(result) = Len(data)

\* C10 witness: a sort with several boundaries and a proper sample has
\* returned.
C10_Witness ==
    /\ pc = "done"
    /\ Len(qidx) >= 2
    /\ Len(bidx) = n
    /\ sample_size < n
====
